---- MODULE Spec2Model ----
(***************************************************************************)
(* grants.gov scraper: the HTML-to-record extraction core of src/parser.py *)
(* (safe_extract_text, clean_amount, validate_grant_data,                  *)
(* parse_search_results, parse_grant_details).                             *)
(*                                                                         *)
(* A Python str is a sequence of one-character strings.  A parsed document *)
(* is represented by exactly what the code reads from it through           *)
(* BeautifulSoup: find / find_all results in document order, .text,        *)
(* .stripped_strings and attribute values.  An exception raised by a       *)
(* statement is an input of the call (the "fault" fields): it names the    *)
(* statement that raises when it is executed.                              *)
(***************************************************************************)
EXTENDS Integers, Sequences, FiniteSets, TLC

---------------------------------------------------------------------------
(* Bounds of the model *)

\* data rows (after the header row) of a search-results table
MaxRows == 3
\* length of the free-text strings of a search-results row
MaxLen == 2
\* length of the argument of a direct clean_amount call
MaxAmountLen == 3

---------------------------------------------------------------------------
(* Python values *)

None == [t |-> "None"]
Str(s) == [t |-> "str", s |-> s]
\* a BeautifulSoup Tag, reduced to its .text
Tag(text) == [t |-> "tag", text |-> text]
\* the value the caller receives: a list, a dict, or an escaping exception
RetList(l) == [t |-> "list", v |-> l]
RetDict(d) == [t |-> "dict", v |-> d]
Raised == [t |-> "raise"]
NoRet == [t |-> "noret"]
EmptyDict == [k \in {} |-> None]

\* bool(v) for None, str and dict values: a dict value here always has the
\* two keys text and urls, so it is truthy
Truthy(v) ==
    CASE v.t = "None" -> FALSE
      [] v.t = "str" -> Len(v.s) > 0
      [] OTHER -> TRUE

\* characters str.strip() removes
Whitespace == {" ", "\n", "\t"}

RECURSIVE LStrip(_)
LStrip(s) ==
    IF s = <<>> THEN s
    ELSE IF Head(s) \in Whitespace THEN LStrip(Tail(s)) ELSE s

RECURSIVE RStrip(_)
RStrip(s) ==
    IF s = <<>> THEN s
    ELSE IF s[Len(s)] \in Whitespace THEN RStrip(SubSeq(s, 1, Len(s) - 1)) ELSE s

\* str.strip()
Strip(s) == RStrip(LStrip(s))

\* characters matched by \d and by [\d.]
Digits == {"0", "1", "2", "3", "4", "5", "6", "7", "8", "9"}
AmountChars == Digits \cup {"."}

\* all strings over an alphabet, up to a length
StrsUpTo(alphabet, n) == UNION {[1..k -> alphabet] : k \in 0..n}

---------------------------------------------------------------------------
(* FieldSanitizer and RecordValidator *)

\* safe_extract_text returning the trimmed text even when it is empty
safe_extract_text_KeepsEmpty(element) ==
    IF element.t = "None" THEN None ELSE Str(Strip(element.text))

\* safe_extract_text(element, class_name): element is None or a Tag
safe_extract_text(element) ==
    IF element.t = "None" THEN None
    ELSE LET text == Strip(element.text)
         IN IF text # <<>> THEN Str(text) ELSE None

\* re.sub with the pattern [^\d]: the decimal points are removed too
RECURSIVE ReSubNonAmount_DigitsOnly(_)
ReSubNonAmount_DigitsOnly(s) ==
    IF s = <<>> THEN <<>>
    ELSE IF Head(s) \in Digits
         THEN <<Head(s)>> \o ReSubNonAmount_DigitsOnly(Tail(s))
         ELSE ReSubNonAmount_DigitsOnly(Tail(s))

\* re.sub(r'[^\d.]', '', s)
RECURSIVE ReSubNonAmount(_)
ReSubNonAmount(s) ==
    IF s = <<>> THEN <<>>
    ELSE IF Head(s) \in AmountChars
         THEN <<Head(s)>> \o ReSubNonAmount(Tail(s))
         ELSE ReSubNonAmount(Tail(s))

\* clean_amount(amount_str): amount_str is None or a str
clean_amount(amount_str) ==
    IF ~Truthy(amount_str) THEN None
    ELSE LET cleaned == ReSubNonAmount(amount_str.s)
         IN IF cleaned # <<>> THEN Str(cleaned) ELSE None

required_fields == <<"title", "opportunity_number", "detail_page_url">>

\* dict.get(key)
Get(d, key) == IF key \in DOMAIN d THEN d[key] ELSE None

\* d[key] = value
SetItem(d, key, value) == (key :> value) @@ d

\* validation that forgets opportunity_number
validate_grant_data_TitleUrlOnly(grant_data) ==
    Truthy(Get(grant_data, "title")) /\ Truthy(Get(grant_data, "detail_page_url"))

validate_grant_data(grant_data) ==
    \A i \in 1..Len(required_fields) : Truthy(Get(grant_data, required_fields[i]))

---------------------------------------------------------------------------
(* Search-results documents, as parse_search_results reads them *)

\* a row (tr) of the usa-table:
\*   cols     the td cells of row.find_all("td"), each by the text that is
\*            its own (outside a nested grant-details div)
\*   link     cols[0].find("a", class_="usa-link"): None, or its text and
\*            href attribute (None when the attribute is missing)
\*   details  cols[1].find('div', class_='grant-details'): None, or the
\*            nested elements the code looks up in it
\*   fault    the statement of the row's processing that raises, if any
Anchor(text, href) == [t |-> "a", text |-> text, href |-> href]
AwardInfo(ceiling, floor) == [t |-> "div", ceiling |-> ceiling, floor |-> floor]
GrantDetails(award, eligibility, funding, category) ==
    [t |-> "div", award |-> award, eligibility |-> eligibility,
     funding |-> funding, category |-> category]

\* element.text of an element that may be absent
TextOf(element) == IF element.t = "None" THEN <<>> ELSE element.text

\* .text of the grant-details div: the text of its descendants
DetailsText(d) ==
    IF d.t = "None" THEN <<>>
    ELSE (IF d.award.t = "None" THEN <<>>
          ELSE TextOf(d.award.ceiling) \o TextOf(d.award.floor))
         \o TextOf(d.eligibility) \o TextOf(d.funding) \o TextOf(d.category)

\* cols[i] (Python index) as a Tag: the title cell's text includes the text
\* of the grant-details div nested in it
Col(row, i) ==
    Tag(IF i = 1 THEN row.cols[i + 1] \o DetailsText(row.details)
        ELSE row.cols[i + 1])

\* the statements of the optional block, lines 131-152, in order
ExtraStmts ==
    <<"details", "award", "ceiling", "floor", "eligibility", "funding", "category">>
RowFaults == {"none", "row"} \cup {ExtraStmts[k] : k \in 1..Len(ExtraStmts)}

Txt == StrsUpTo({" ", "a"}, MaxLen)
HrefStrs == StrsUpTo({" ", "/", "a"}, MaxLen)
AmountTxt == StrsUpTo({" ", "$", "1", "."}, MaxLen)

SitePrefix ==
    <<"h", "t", "t", "p", "s", ":", "/", "/", "g", "r", "a", "n", "t", "s", ".", "g", "o", "v">>
AbsoluteHref == SitePrefix \o <<"/", "a">>

Cells(k, text) == [i \in 1..k |-> text]

\* a well-formed row without and with the optional grant-details block
RowA ==
    [cols |-> Cells(6, <<"a">>), link |-> Anchor(<<"a">>, Str(<<"/", "a">>)),
     details |-> None, fault |-> "none"]
RowB ==
    [cols |-> Cells(6, <<"b">>), link |-> Anchor(<<" ", "b">>, Str(<<"/", "b", " ">>)),
     details |-> GrantDetails(AwardInfo(Tag(<<"$", "1", ",", "5">>), Tag(<<"1", ".", "5">>)),
                              Tag(<<"e">>), Tag(<<" ", "f">>), Tag(<<"c">>)),
     fault |-> "none"]
\* a header row: th cells only
HeaderRow == [cols |-> <<>>, link |-> None, details |-> None, fault |-> "none"]

\* rows for the tables of several rows: one per way a row is handled
NarrowRows ==
    {RowA, RowB,
     [RowA EXCEPT !.cols = Cells(4, <<"a">>)],
     [RowA EXCEPT !.link = None],
     [RowA EXCEPT !.link.href = Str(<<" ">>)],
     [RowA EXCEPT !.cols[2] = <<" ">>],
     [RowB EXCEPT !.fault = "row"]}

\* rows for the tables of one row: each field of a row over its whole range
WideRows ==
    {[RowA EXCEPT !.cols = Cells(k, <<"a">>)] : k \in 0..7}
    \cup {[RowA EXCEPT !.cols[i] = x] : i \in 2..6, x \in Txt}
    \cup {[RowA EXCEPT !.link.text = x] : x \in Txt}
    \cup {[RowA EXCEPT !.link.href = h] :
            h \in {None, Str(AbsoluteHref)} \cup {Str(x) : x \in HrefStrs}}
    \cup {[RowB EXCEPT !.details.award = a] :
            a \in {None} \cup {AwardInfo(c, f) :
                      c \in {None} \cup {Tag(x) : x \in AmountTxt},
                      f \in {None, Tag(<<"1">>)}}
                  \cup {AwardInfo(Tag(<<"1">>), Tag(x)) : x \in AmountTxt}}
    \cup {[RowB EXCEPT !.details.eligibility = e] : e \in {None} \cup {Tag(x) : x \in Txt}}
    \cup {[RowB EXCEPT !.details.funding = e] : e \in {None} \cup {Tag(x) : x \in Txt}}
    \cup {[RowB EXCEPT !.details.category = e] : e \in {None} \cup {Tag(x) : x \in Txt}}
    \cup {[RowB EXCEPT !.fault = f] : f \in RowFaults}
    \cup {[RowB EXCEPT !.fault = f, !.details.award = None] : f \in RowFaults}
    \cup {[r EXCEPT !.cols[2] = x] :
            x \in {<<>>, <<" ">>},
            r \in {[RowB EXCEPT !.details = d] :
                     d \in {None, GrantDetails(None, None, None, None),
                            GrantDetails(None, Tag(<<" ">>), None, None),
                            GrantDetails(None, None, None, Tag(<<"c">>))}}}

SeqsUpTo(S, n) == UNION {[1..k -> S] : k \in 0..n}

\* table.find_all('tr'): the first row (the header, whatever it holds) and
\* the data rows
HeaderRows == {HeaderRow, RowA}
SearchTables ==
    {<<>>}
    \cup {<<h>> \o rs : h \in HeaderRows, rs \in SeqsUpTo(NarrowRows, MaxRows)}
    \cup {<<h, r>> : h \in HeaderRows, r \in WideRows}

\* the statement of the outer try block that raises, if any: the document
\* parse of line 83, or line 168 after the row loop
DocFaults == {"none", "soup", "tail"}

\* html_content: None or "" ("empty"), or a document, with its usa-table
\* (None when soup.find('table', class_='usa-table') finds nothing)
EmptyInput == [kind |-> "empty"]
SearchDoc(fault, table) == [kind |-> "search", fault |-> fault, table |-> table]
SearchInputs ==
    {EmptyInput}
    \cup {SearchDoc(f, None) : f \in DocFaults}
    \cup {SearchDoc(f, [t |-> "table", trs |-> trs]) : f \in DocFaults, trs \in SearchTables}

---------------------------------------------------------------------------
(* Detail pages, as parse_grant_details reads them *)

\* rows of a narrow section table (at most), and hyperlinks of a value cell
MaxSecRows == 2
MaxLinks == 2
\* retry_request: the largest max_retries
MaxRetries == 3

\* a td cell: its text nodes in document order (those of nested elements
\* included) and the href attributes of the a elements of find_all("a")
\* (None for a missing attribute)
Cell(strings, links) == [strings |-> strings, links |-> links]
TextCell(text) == Cell(<<text>>, <<>>)
\* a row (tr) of a section table: row.find_all("td"), and whether its
\* processing raises
SecRow(cols) == [cols |-> cols, fault |-> "none"]
\* a section: soup.find('h2', string=header_text) and header.find_next("table")
NoHeader == None
Section(table) == [t |-> "h2", table |-> table]
Table(trs) == [t |-> "table", trs |-> trs]

RECURSIVE Concat(_)
Concat(strs) == IF strs = <<>> THEN <<>> ELSE Head(strs) \o Concat(Tail(strs))

\* cell.text
CellText(cell) == Concat(cell.strings)

KeyK == <<"k">>
KeyJ == <<"j">>
KeySynopsis == <<"s", "y", "n", "o", "p", "s", "i", "s">>
SeeLinks == <<"S", "e", "e", " ", "l", "i", "n", "k", "s">>

KeyStrs == StrsUpTo({" ", ":", "k"}, MaxLen + 1)
ValueStrs == {<<>>, <<" ">>, <<"v">>, <<" ", "w", " ">>, <<"x", "\n">>}
HrefAttrs == {None, Str(<<>>), Str(<<" ">>), Str(<<"/", "a">>), Str(<<" ", "/", "b">>)}

RowKV == SecRow(<<TextCell(KeyK), TextCell(<<"v">>)>>)
RowKW == SecRow(<<TextCell(<<"k", ":">>), TextCell(<<"w">>)>>)
RowJLinks ==
    SecRow(<<TextCell(<<"j", ":">>),
             Cell(<<SeeLinks>>, <<Str(<<"/", "a">>), Str(<<"/", "b">>)>>)>>)
RowThreeCells == SecRow(<<TextCell(KeyJ), TextCell(<<"v">>), TextCell(<<"w">>)>>)
RowRaises == [RowKV EXCEPT !.fault = "row"]

NarrowSecRows == {RowKV, RowKW, RowJLinks, RowThreeCells, RowRaises}

WideSecRows ==
    {SecRow([i \in 1..n |-> TextCell(<<"v">>)]) : n \in 0..3}
    \cup {SecRow(<<TextCell(k), TextCell(<<"v">>)>>) : k \in KeyStrs \cup {KeySynopsis}}
    \cup {SecRow(<<TextCell(KeyK), Cell(ss, <<>>)>>) : ss \in SeqsUpTo(ValueStrs, 2)}
    \cup {SecRow(<<TextCell(KeyK), Cell(ss, ls)>>) :
            ss \in {<<>>, <<<<" ">>>>, <<SeeLinks>>, <<<<" ", "v">>, <<"w", " ">>>>},
            ls \in SeqsUpTo(HrefAttrs, MaxLinks) \ {<<>>}}

NarrowSections ==
    {NoHeader, Section(None), Section(Table(<<RowKV>>)), Section(Table(<<RowKW, RowJLinks>>)),
     Section(Table(<<RowJLinks, RowRaises, RowKW>>)),
     Section(Table(<<RowThreeCells, SecRow(<<TextCell(KeyJ), TextCell(<<"x">>)>>)>>))}
WideSections ==
    {Section(Table(trs)) : trs \in SeqsUpTo(NarrowSecRows, MaxSecRows)}
    \cup {Section(Table(<<r>>)) : r \in WideSecRows}

\* the three sections of lines 206-219, in the dict's order
SectionNames == <<"general", "eligibility", "additional">>
Sections(g, e, a) == [general |-> g, eligibility |-> e, additional |-> a]

\* an element that follows the heading in document order: its tag name,
\* where it stands ("sibling": a later child of the heading's parent;
\* "nested": inside the element before it; "outside": after the heading's
\* parent has closed) and its text
Element(name, rel, text) == [t |-> "tag", name |-> name, rel |-> rel, text |-> text]
Div(text) == Element("div", "sibling", text)

\* Tag.find_next(name): the first element of that name after the tag, in
\* document order, or None
find_next(following, name) ==
    LET hits == {i \in 1..Len(following) : following[i].name = name}
    IN IF hits = {} THEN None
       ELSE following[CHOOSE i \in hits : \A j \in hits : i <= j]

\* soup.find('h2', string='Opportunity Synopsis'): None, or the header with
\* the elements that follow it
SynopsisHeader(following) == [t |-> "h2", following |-> following]
Synopses ==
    {None, SynopsisHeader(<<>>), SynopsisHeader(<<Div(<<>>)>>),
     SynopsisHeader(<<Div(<<" ", "s", " ">>)>>)}
\* headings whose next sibling is not the first div after them: a paragraph
\* before a later div, a section with a div inside, a paragraph and no div,
\* and a heading that is the last child, before a div of another parent
WideSynopses ==
    {SynopsisHeader(<<Element("p", "sibling", <<"s">>), Div(<<"o">>)>>),
     SynopsisHeader(<<Element("section", "sibling", <<"s", "o">>),
                      Element("div", "nested", <<"o">>)>>),
     SynopsisHeader(<<Element("p", "sibling", <<"s">>)>>),
     SynopsisHeader(<<Element("div", "outside", <<"o">>)>>)}

\* the statement that raises, if any: the document parse of line 191, the
\* synopsis lookup of lines 196-200, or the merge of line 270 for the last
\* section
DetailFaults == {"none", "soup", "synopsis", "merge"}

DetailDoc(fault, synopsis, sections) ==
    [kind |-> "details", fault |-> fault, synopsis |-> synopsis, sections |-> sections]
DetailInputs ==
    {EmptyInput}
    \cup {DetailDoc(f, y, Sections(g, e, a)) :
            f \in DetailFaults, y \in Synopses,
            g \in NarrowSections, e \in NarrowSections, a \in NarrowSections}
    \cup {DetailDoc("none", SynopsisHeader(<<Div(<<"s">>)>>), Sections(w, NoHeader, NoHeader)) :
            w \in WideSections}
    \cup {DetailDoc(f, y, Sections(g, NoHeader, NoHeader)) :
            f \in {"none", "synopsis"}, y \in WideSynopses, g \in NarrowSections}
    \cup {DetailDoc("none", None, Sections(Section(Table(<<RowKV>>)), w, NoHeader)) :
            w \in WideSections}
    \cup {DetailDoc("none", None, Sections(NoHeader, Section(Table(<<RowJLinks>>)), w)) :
            w \in WideSections}

---------------------------------------------------------------------------
(* State *)

VARIABLES
    fn,             \* the function being called, "none" between calls
    pc,             \* the position in it
    html_content,   \* argument of parse_search_results / parse_grant_details
    amount_str,     \* argument of a direct clean_amount call
    rows,           \* parse_search_results: table.find_all('tr')[1:]
    idx,            \* parse_search_results: the loop index (from 1)
    grants,         \* parse_search_results: the list being built
    details,        \* parse_grant_details: the dict being built
    sec,            \* parse_grant_details: index of the section in the loop
    ret,            \* what the caller received
    suspended,      \* the invocation of a second thread, while it is not running
    ref,            \* an earlier call kept for comparison: function, argument, result
    wrapper         \* retry_request: max_retries, retries, and the attempts made

vars ==
    <<fn, pc, html_content, amount_str, rows, idx, grants, details, sec, ret,
      suspended, ref, wrapper>>

\* the locals and the position of one invocation of an extractor
Frame(f, p, html, rs, i, gs, ds, sc, r) ==
    [fn |-> f, pc |-> p, html_content |-> html, rows |-> rs, idx |-> i,
     grants |-> gs, details |-> ds, sec |-> sc, ret |-> r]
IdleFrame == Frame("none", "idle", [kind |-> "empty"], <<>>, 0, <<>>, [k \in {} |-> None], 0, NoRet)
NoRef == [fn |-> "none"]
\* retry_request before any decorated call
NoWrapper == [max_retries |-> 0, retries |-> 0, calls |-> 0]

Init ==
    /\ fn = "none"
    /\ pc = "idle"
    /\ html_content = EmptyInput
    /\ amount_str = None
    /\ rows = <<>>
    /\ idx = 0
    /\ grants = <<>>
    /\ details = EmptyDict
    /\ sec = 0
    /\ ret = NoRet
    /\ suspended = IdleFrame
    /\ ref = NoRef
    /\ wrapper = NoWrapper

---------------------------------------------------------------------------
(* parse_search_results *)

\* opportunity_link.get("href", "")
AttrGet(attr, default) == IF attr.t = "None" THEN default ELSE attr.s

\* a URL join that inserts the slash a relative href lacks
DetailUrl_Normalizing(detail_url) ==
    IF Head(detail_url) = "/" THEN SitePrefix \o detail_url
    ELSE SitePrefix \o <<"/">> \o detail_url

\* f"https://grants.gov{detail_url}"
DetailUrl(detail_url) == SitePrefix \o detail_url

\* the grant dict of lines 119-127
BasicGrant(row) ==
    [k \in {"opportunity_number", "detail_page_url", "title", "agency", "status",
            "posted_date", "close_date"} |->
        CASE k = "opportunity_number" -> Str(Strip(row.link.text))
          [] k = "detail_page_url" -> Str(DetailUrl(Strip(AttrGet(row.link.href, <<>>))))
          [] k = "title" -> safe_extract_text(Col(row, 1))
          [] k = "agency" -> safe_extract_text(Col(row, 2))
          [] k = "status" -> safe_extract_text(Col(row, 3))
          [] k = "posted_date" -> safe_extract_text(Col(row, 4))
          [] k = "close_date" -> safe_extract_text(Col(row, 5))]

\* whether statement k of the optional block is executed, given that the
\* statements before it did not raise
ExtraReached(row, k) ==
    CASE ExtraStmts[k] = "details" -> TRUE
      [] ExtraStmts[k] \in {"ceiling", "floor"} ->
            row.details.t # "None" /\ row.details.award.t # "None"
      [] OTHER -> row.details.t # "None"

\* the effect of statement k of the optional block on the grant dict
ExtraAssign(grant, row, k) ==
    CASE ExtraStmts[k] = "ceiling" ->
            SetItem(grant, "award_ceiling",
                    clean_amount(safe_extract_text(row.details.award.ceiling)))
      [] ExtraStmts[k] = "floor" ->
            SetItem(grant, "award_floor",
                    clean_amount(safe_extract_text(row.details.award.floor)))
      [] ExtraStmts[k] = "eligibility" ->
            SetItem(grant, "eligibility", safe_extract_text(row.details.eligibility))
      [] ExtraStmts[k] = "funding" ->
            SetItem(grant, "funding_instrument", safe_extract_text(row.details.funding))
      [] ExtraStmts[k] = "category" ->
            SetItem(grant, "category", safe_extract_text(row.details.category))
      [] OTHER -> grant

\* lines 130-154 from statement k on: an exception ends the block and is
\* swallowed, keeping what was assigned before it
RECURSIVE ExtraFields(_, _, _)
ExtraFields(grant, row, k) ==
    IF k > Len(ExtraStmts) THEN grant
    ELSE IF ~ExtraReached(row, k) THEN ExtraFields(grant, row, k + 1)
    ELSE IF row.fault = ExtraStmts[k] THEN grant
    ELSE ExtraFields(ExtraAssign(grant, row, k), row, k + 1)

\* the grant dict as it reaches validation (line 157)
Grant(row) == ExtraFields(BasicGrant(row), row, 1)

\* lines 76-78
SearchEmpty ==
    /\ fn = "parse_search_results" /\ pc = "entry"
    /\ html_content.kind = "empty"
    /\ ret' = RetList(<<>>)
    /\ pc' = "done"
    /\ UNCHANGED <<suspended, ref, wrapper, details, sec, fn, html_content, amount_str, rows, idx, grants>>

\* the document parse raising with no handler around it
SearchParseError_Escapes ==
    /\ fn = "parse_search_results" /\ pc = "entry"
    /\ html_content.kind # "empty"
    /\ html_content.fault = "soup"
    /\ ret' = Raised
    /\ pc' = "done"
    /\ UNCHANGED <<suspended, ref, wrapper, details, sec, fn, html_content, amount_str, rows, idx, grants>>

\* lines 80-83, 171-173: the document parse raises
SearchParseError ==
    /\ fn = "parse_search_results" /\ pc = "entry"
    /\ html_content.kind # "empty"
    /\ html_content.fault = "soup"
    /\ ret' = RetList(<<>>)
    /\ pc' = "done"
    /\ UNCHANGED <<suspended, ref, wrapper, details, sec, fn, html_content, amount_str, rows, idx, grants>>

\* lines 80-88
SearchNoTable ==
    /\ fn = "parse_search_results" /\ pc = "entry"
    /\ html_content.kind # "empty"
    /\ html_content.fault # "soup"
    /\ html_content.table.t = "None"
    /\ ret' = RetList(<<>>)
    /\ pc' = "done"
    /\ UNCHANGED <<suspended, ref, wrapper, details, sec, fn, html_content, amount_str, rows, idx, grants>>

\* rows = table.find_all('tr'), the first row kept
SearchFindRows_KeepHeader ==
    /\ fn = "parse_search_results" /\ pc = "entry"
    /\ html_content.kind # "empty"
    /\ html_content.fault # "soup"
    /\ html_content.table.t # "None"
    /\ rows' = html_content.table.trs
    /\ idx' = 1
    /\ grants' = <<>>
    /\ pc' = "loop"
    /\ UNCHANGED <<suspended, ref, wrapper, details, sec, fn, html_content, amount_str, ret>>

InLoop == fn = "parse_search_results" /\ pc = "loop" /\ idx <= Len(rows)

\* grants bound once, outside the call (a default argument or a module
\* global), instead of grants = [] in every call
SearchFindRows_SharedList ==
    /\ fn = "parse_search_results" /\ pc = "entry"
    /\ html_content.kind # "empty"
    /\ html_content.fault # "soup"
    /\ html_content.table.t # "None"
    /\ rows' = SubSeq(html_content.table.trs, 2, Len(html_content.table.trs))
    /\ idx' = 1
    /\ pc' = "loop"
    /\ UNCHANGED <<suspended, ref, wrapper, details, sec, fn, html_content, amount_str, ret, grants>>

\* lines 80-91: rows = table.find_all('tr')[1:]
SearchFindRows ==
    /\ fn = "parse_search_results" /\ pc = "entry"
    /\ html_content.kind # "empty"
    /\ html_content.fault # "soup"
    /\ html_content.table.t # "None"
    /\ rows' = SubSeq(html_content.table.trs, 2, Len(html_content.table.trs))
    /\ idx' = 1
    /\ grants' = <<>>
    /\ pc' = "loop"
    /\ UNCHANGED <<suspended, ref, wrapper, details, sec, fn, html_content, amount_str, ret>>

\* a raising row ending the loop instead of being skipped
RowError_AbortsBatch ==
    /\ InLoop
    /\ rows[idx].fault = "row"
    /\ idx' = Len(rows) + 1
    /\ UNCHANGED <<suspended, ref, wrapper, details, sec, fn, pc, html_content, amount_str, rows, grants, ret>>

\* lines 94-96, 164-166: the row's processing raises
RowError ==
    /\ InLoop
    /\ rows[idx].fault = "row"
    /\ idx' = idx + 1
    /\ UNCHANGED <<suspended, ref, wrapper, details, sec, fn, pc, html_content, amount_str, rows, grants, ret>>

\* lines 96-99
RowTooFewCols ==
    /\ InLoop
    /\ rows[idx].fault # "row"
    /\ Len(rows[idx].cols) < 6
    /\ idx' = idx + 1
    /\ UNCHANGED <<suspended, ref, wrapper, details, sec, fn, pc, html_content, amount_str, rows, grants, ret>>

\* lines 102-105
RowNoLink ==
    /\ InLoop
    /\ rows[idx].fault # "row"
    /\ Len(rows[idx].cols) >= 6
    /\ rows[idx].link.t = "None"
    /\ idx' = idx + 1
    /\ UNCHANGED <<suspended, ref, wrapper, details, sec, fn, pc, html_content, amount_str, rows, grants, ret>>

HasLink(row) == row.fault # "row" /\ Len(row.cols) >= 6 /\ row.link.t # "None"

\* lines 107-112
RowNoUrl ==
    /\ InLoop
    /\ HasLink(rows[idx])
    /\ Strip(AttrGet(rows[idx].link.href, <<>>)) = <<>>
    /\ idx' = idx + 1
    /\ UNCHANGED <<suspended, ref, wrapper, details, sec, fn, pc, html_content, amount_str, rows, grants, ret>>

\* lines 114-159
RowInvalid ==
    /\ InLoop
    /\ HasLink(rows[idx])
    /\ Strip(AttrGet(rows[idx].link.href, <<>>)) # <<>>
    /\ ~validate_grant_data(Grant(rows[idx]))
    /\ idx' = idx + 1
    /\ UNCHANGED <<suspended, ref, wrapper, details, sec, fn, pc, html_content, amount_str, rows, grants, ret>>

\* lines 114-162
RowAppend ==
    /\ InLoop
    /\ HasLink(rows[idx])
    /\ Strip(AttrGet(rows[idx].link.href, <<>>)) # <<>>
    /\ validate_grant_data(Grant(rows[idx]))
    /\ grants' = Append(grants, Grant(rows[idx]))
    /\ idx' = idx + 1
    /\ UNCHANGED <<suspended, ref, wrapper, details, sec, fn, pc, html_content, amount_str, rows, ret>>

\* lines 168-169
SearchReturn ==
    /\ fn = "parse_search_results" /\ pc = "loop" /\ idx > Len(rows)
    /\ html_content.fault # "tail"
    /\ ret' = RetList(grants)
    /\ pc' = "done"
    /\ UNCHANGED <<suspended, ref, wrapper, details, sec, fn, html_content, amount_str, rows, idx, grants>>

\* lines 168, 171-173: an exception after the row loop
SearchTailError ==
    /\ fn = "parse_search_results" /\ pc = "loop" /\ idx > Len(rows)
    /\ html_content.fault = "tail"
    /\ ret' = RetList(<<>>)
    /\ pc' = "done"
    /\ UNCHANGED <<suspended, ref, wrapper, details, sec, fn, html_content, amount_str, rows, idx, grants>>

CallSearch ==
    /\ pc = "idle"
    /\ \E html \in SearchInputs : html_content' = html
    /\ fn' = "parse_search_results"
    /\ pc' = "entry"
    /\ UNCHANGED <<suspended, ref, wrapper, details, sec, amount_str, rows, idx, grants, ret>>

---------------------------------------------------------------------------
(* clean_amount called on its own *)

AmountArgs ==
    {None, Str(<<"$", "1", ",", "2", "3", "4", ".", "5", "6">>)}
    \cup {Str(x) : x \in StrsUpTo({"$", ",", "1", "5", "."}, MaxAmountLen)}

CallCleanAmount ==
    /\ pc = "idle"
    /\ \E a \in AmountArgs : amount_str' = a
    /\ fn' = "clean_amount"
    /\ pc' = "entry"
    /\ UNCHANGED <<suspended, ref, wrapper, details, sec, html_content, rows, idx, grants, ret>>

\* lines 37-45
CleanAmountReturn ==
    /\ fn = "clean_amount" /\ pc = "entry"
    /\ ret' = clean_amount(amount_str)
    /\ pc' = "done"
    /\ UNCHANGED <<suspended, ref, wrapper, details, sec, fn, html_content, amount_str, rows, idx, grants>>

---------------------------------------------------------------------------
(* parse_grant_details *)

\* str.rstrip(':')
RECURSIVE RStripColons(_)
RStripColons(s) ==
    IF s = <<>> THEN s
    ELSE IF s[Len(s)] = ":" THEN RStripColons(SubSeq(s, 1, Len(s) - 1)) ELSE s

\* "\n".join(strs)
RECURSIVE JoinLines(_)
JoinLines(strs) ==
    IF strs = <<>> THEN <<>>
    ELSE IF Len(strs) = 1 THEN Head(strs)
    ELSE Head(strs) \o <<"\n">> \o JoinLines(Tail(strs))

\* value_cell.stripped_strings: the text nodes stripped, the empty ones left out
RECURSIVE StrippedStrings(_)
StrippedStrings(strs) ==
    IF strs = <<>> THEN <<>>
    ELSE IF Strip(Head(strs)) = <<>> THEN StrippedStrings(Tail(strs))
    ELSE <<Strip(Head(strs))>> \o StrippedStrings(Tail(strs))

\* line 241
RowKey(row) == RStripColons(Strip(CellText(row.cols[1])))

\* line 249: [link.get("href", "").strip() for link in links if link.get("href")]
RECURSIVE Urls(_)
Urls(links) ==
    IF links = <<>> THEN <<>>
    ELSE IF Truthy(Head(links))
         THEN <<Strip(AttrGet(Head(links), <<>>))>> \o Urls(Tail(links))
         ELSE Urls(Tail(links))

\* x or None, for a str x
OrNone(x) == IF x # <<>> THEN Str(x) ELSE None

\* lines 247-250
LinkValue(value_cell) ==
    [t |-> "dict", text |-> OrNone(Strip(CellText(value_cell))),
     urls |-> Urls(value_cell.links)]

\* lines 253-256
TextValue(value_cell) ==
    OrNone(JoinLines([i \in 1..Len(StrippedStrings(value_cell.strings)) |->
                        Strip(StrippedStrings(value_cell.strings)[i])]))

\* lines 242-256
RowValue(row) ==
    IF row.cols[2].links # <<>> THEN LinkValue(row.cols[2]) ELSE TextValue(row.cols[2])

\* lines 235-260 from row i on; an exception ends the loop and the rows
\* extracted before it are returned (lines 262-265)
RECURSIVE ExtractRows(_, _, _)
ExtractRows(section_data, trs, i) ==
    IF i > Len(trs) THEN section_data
    ELSE IF trs[i].fault = "row" THEN section_data
    ELSE IF Len(trs[i].cols) # 2 THEN ExtractRows(section_data, trs, i + 1)
    ELSE IF Truthy(RowValue(trs[i]))
         THEN ExtractRows(SetItem(section_data, RowKey(trs[i]), RowValue(trs[i])), trs, i + 1)
         ELSE ExtractRows(section_data, trs, i + 1)

\* lines 221-265; section is soup.find('h2', string=header_text)
extract_table_data(section) ==
    IF section.t = "None" THEN EmptyDict
    ELSE IF section.table.t = "None" THEN EmptyDict
    ELSE ExtractRows(EmptyDict, section.table.trs, 1)

\* a merge in which the keys already present win
Update_KeepsExisting(d, other) == d @@ other

\* dict.update
Update(d, other) == other @@ d

\* lines 185-187
DetailsEmpty ==
    /\ fn = "parse_grant_details" /\ pc = "entry"
    /\ html_content.kind = "empty"
    /\ ret' = RetDict(EmptyDict)
    /\ pc' = "done"
    /\ UNCHANGED <<suspended, ref, wrapper, fn, html_content, amount_str, rows, idx, grants, details, sec>>

\* lines 189-191, 274-276: the document parse raises
DetailsParseError ==
    /\ fn = "parse_grant_details" /\ pc = "entry"
    /\ html_content.kind # "empty"
    /\ html_content.fault = "soup"
    /\ ret' = RetDict(EmptyDict)
    /\ pc' = "done"
    /\ UNCHANGED <<suspended, ref, wrapper, fn, html_content, amount_str, rows, idx, grants, details, sec>>

\* lines 191-203: details = {} and the synopsis block; an exception in the
\* block is swallowed
DetailsSynopsis ==
    /\ fn = "parse_grant_details" /\ pc = "entry"
    /\ html_content.kind # "empty"
    /\ html_content.fault # "soup"
    /\ details' =
         LET synopsis_header == html_content.synopsis
         IN IF html_content.fault = "synopsis" \/ synopsis_header.t = "None"
            THEN EmptyDict
            ELSE LET synopsis_section == find_next(synopsis_header.following, "div")
                 IN IF synopsis_section.t = "None" THEN EmptyDict
                    ELSE SetItem(EmptyDict, KeySynopsis, Str(Strip(synopsis_section.text)))
    /\ sec' = 1
    /\ pc' = "sections"
    /\ UNCHANGED <<suspended, ref, wrapper, fn, html_content, amount_str, rows, idx, grants, ret>>

InSections == fn = "parse_grant_details" /\ pc = "sections" /\ sec <= Len(SectionNames)

\* lines 268-270, one iteration
DetailsSection ==
    /\ InSections
    /\ ~(html_content.fault = "merge" /\ sec = Len(SectionNames))
    /\ details' = Update(details, extract_table_data(html_content.sections[SectionNames[sec]]))
    /\ sec' = sec + 1
    /\ UNCHANGED <<suspended, ref, wrapper, fn, pc, html_content, amount_str, rows, idx, grants, ret>>

\* lines 268-270, 274-276: an exception outside the section routine
DetailsMergeError ==
    /\ InSections
    /\ html_content.fault = "merge" /\ sec = Len(SectionNames)
    /\ ret' = RetDict(EmptyDict)
    /\ pc' = "done"
    /\ UNCHANGED <<suspended, ref, wrapper, fn, html_content, amount_str, rows, idx, grants, details, sec>>

\* line 272
DetailsReturn ==
    /\ fn = "parse_grant_details" /\ pc = "sections" /\ sec > Len(SectionNames)
    /\ ret' = RetDict(details)
    /\ pc' = "done"
    /\ UNCHANGED <<suspended, ref, wrapper, fn, html_content, amount_str, rows, idx, grants, details, sec>>

CallDetails ==
    /\ pc = "idle"
    /\ \E html \in DetailInputs : html_content' = html
    /\ fn' = "parse_grant_details"
    /\ pc' = "entry"
    /\ UNCHANGED <<suspended, ref, wrapper, amount_str, rows, idx, grants, details, sec, ret>>

---------------------------------------------------------------------------

---------------------------------------------------------------------------
(* retry_request, src/utilities.py lines 36-59 *)

\* what wrapper hands to its caller: the value the n-th attempt returned,
\* the exception the n-th attempt raised, or None
Value(n) == [t |-> "value", attempt |-> n]
Reraised(n) == [t |-> "raise", attempt |-> n]

InWhile == fn = "wrapper" /\ pc = "while"

\* a call of a function decorated with @retry_request(max_retries, delay);
\* line 47: retries = 0
CallWrapper ==
    /\ pc = "idle"
    /\ \E max_retries \in 0..MaxRetries :
         wrapper' = [max_retries |-> max_retries, retries |-> 0, calls |-> 0]
    /\ fn' = "wrapper"
    /\ pc' = "while"
    /\ UNCHANGED <<suspended, ref, details, sec, html_content, amount_str, rows, idx, grants, ret>>

\* lines 48-50: the loop is entered and func returns
AttemptReturns ==
    /\ InWhile
    /\ wrapper.retries < wrapper.max_retries
    /\ wrapper' = [wrapper EXCEPT !.calls = @ + 1]
    /\ ret' = Value(wrapper.calls + 1)
    /\ pc' = "done"
    /\ UNCHANGED <<suspended, ref, details, sec, fn, html_content, amount_str, rows, idx, grants>>

\* lines 51-55: func raises, retries is still below max_retries after the
\* increment, and the loop goes round
AttemptRaises ==
    /\ InWhile
    /\ wrapper.retries < wrapper.max_retries
    /\ wrapper.retries + 1 # wrapper.max_retries
    /\ wrapper' = [wrapper EXCEPT !.calls = @ + 1, !.retries = @ + 1]
    /\ UNCHANGED <<suspended, ref, details, sec, fn, pc, html_content, amount_str, rows, idx, grants, ret>>

\* lines 51-57: func raises and retries reaches max_retries: raise
LastAttemptRaises ==
    /\ InWhile
    /\ wrapper.retries < wrapper.max_retries
    /\ wrapper.retries + 1 = wrapper.max_retries
    /\ wrapper' = [wrapper EXCEPT !.calls = @ + 1, !.retries = @ + 1]
    /\ ret' = Reraised(wrapper.calls + 1)
    /\ pc' = "done"
    /\ UNCHANGED <<suspended, ref, details, sec, fn, html_content, amount_str, rows, idx, grants>>

\* line 48 false: the loop ends and wrapper falls off its end
WrapperFallsOff ==
    /\ InWhile
    /\ ~(wrapper.retries < wrapper.max_retries)
    /\ ret' = None
    /\ pc' = "done"
    /\ UNCHANGED <<suspended, ref, wrapper, details, sec, fn, html_content, amount_str, rows, idx, grants>>


\* the caller takes the result; the next call starts from fresh locals
Reset ==
    /\ pc = "done"
    /\ fn' = "none"
    /\ pc' = "idle"
    /\ html_content' = EmptyInput
    /\ amount_str' = None
    /\ rows' = <<>>
    /\ idx' = 0
    /\ grants' = <<>>
    /\ details' = EmptyDict
    /\ sec' = 0
    /\ ret' = NoRet
    /\ wrapper' = NoWrapper
    /\ UNCHANGED <<suspended, ref>>

Next ==
    \/ CallSearch \/ SearchEmpty \/ SearchParseError \/ SearchNoTable
    \/ SearchFindRows \/ RowError \/ RowTooFewCols \/ RowNoLink \/ RowNoUrl
    \/ RowInvalid \/ RowAppend \/ SearchReturn \/ SearchTailError
    \/ CallDetails \/ DetailsEmpty \/ DetailsParseError \/ DetailsSynopsis
    \/ DetailsSection \/ DetailsMergeError \/ DetailsReturn
    \/ CallCleanAmount \/ CleanAmountReturn
    \/ CallWrapper \/ AttemptReturns \/ AttemptRaises \/ LastAttemptRaises
    \/ WrapperFallsOff
    \/ Reset

Spec == Init /\ [][Next]_vars

---------------------------------------------------------------------------
(* Repeated and interleaved calls of the two extractors *)

\* the documents that are parsed again: one per path through each extractor
RepeatTable ==
    <<HeaderRow, RowA,
      [RowA EXCEPT !.cols = Cells(4, <<"a">>)],
      [RowA EXCEPT !.link = None],
      [RowA EXCEPT !.link.href = Str(<<" ">>)],
      [RowA EXCEPT !.cols[2] = <<" ">>],
      [RowB EXCEPT !.fault = "row"],
      RowB>>
RepeatSearchInputs ==
    {EmptyInput, SearchDoc("soup", None), SearchDoc("none", None),
     SearchDoc("none", [t |-> "table", trs |-> RepeatTable]),
     SearchDoc("tail", [t |-> "table", trs |-> <<HeaderRow, RowA>>])}
RepeatDetailInputs ==
    {EmptyInput,
     DetailDoc("soup", None, Sections(NoHeader, NoHeader, NoHeader)),
     DetailDoc("merge", SynopsisHeader(<<Div(<<"s">>)>>),
               Sections(Section(Table(<<RowKV>>)), NoHeader, NoHeader)),
     DetailDoc("none", SynopsisHeader(<<Div(<<" ", "s", " ">>)>>),
               Sections(Section(Table(<<RowKV>>)), Section(Table(<<RowKW, RowJLinks>>)),
                        Section(None)))}

\* a call of parse_search_results; the list and the dict built by earlier
\* calls still exist, in the hands of their callers
CallSearchAgain ==
    /\ pc = "idle"
    /\ \E html \in RepeatSearchInputs : html_content' = html
    /\ fn' = "parse_search_results"
    /\ pc' = "entry"
    /\ UNCHANGED <<amount_str, rows, idx, grants, details, sec, ret, suspended, ref, wrapper>>

CallDetailsAgain ==
    /\ pc = "idle"
    /\ \E html \in RepeatDetailInputs : html_content' = html
    /\ fn' = "parse_grant_details"
    /\ pc' = "entry"
    /\ UNCHANGED <<amount_str, rows, idx, grants, details, sec, ret, suspended, ref, wrapper>>

\* the caller takes the result: the invocation's frame is gone, the objects
\* it built are not
Return ==
    /\ pc = "done"
    /\ fn \in {"parse_search_results", "parse_grant_details"}
    /\ fn' = "none"
    /\ pc' = "idle"
    /\ html_content' = EmptyInput
    /\ rows' = <<>>
    /\ idx' = 0
    /\ sec' = 0
    /\ ret' = NoRet
    /\ UNCHANGED <<amount_str, grants, details, suspended, ref, wrapper>>

\* the same, the call being the one later calls are compared with
ReturnKept ==
    /\ pc = "done"
    /\ fn \in {"parse_search_results", "parse_grant_details"}
    /\ ref' = [fn |-> fn, html_content |-> html_content, ret |-> ret]
    /\ fn' = "none"
    /\ pc' = "idle"
    /\ html_content' = EmptyInput
    /\ rows' = <<>>
    /\ idx' = 0
    /\ sec' = 0
    /\ ret' = NoRet
    /\ UNCHANGED <<amount_str, grants, details, suspended, wrapper>>

\* a thread switch: the running invocation is suspended where it stands and
\* the other thread's invocation runs on, each with its own locals
Switch ==
    /\ fn \in {"none", "parse_search_results", "parse_grant_details"}
    /\ suspended' = Frame(fn, pc, html_content, rows, idx, grants, details, sec, ret)
    /\ fn' = suspended.fn
    /\ pc' = suspended.pc
    /\ html_content' = suspended.html_content
    /\ rows' = suspended.rows
    /\ idx' = suspended.idx
    /\ grants' = suspended.grants
    /\ details' = suspended.details
    /\ sec' = suspended.sec
    /\ ret' = suspended.ret
    /\ UNCHANGED <<amount_str, ref, wrapper>>

NextTwice ==
    \/ CallSearchAgain \/ SearchEmpty \/ SearchParseError \/ SearchNoTable
    \/ SearchFindRows \/ RowError \/ RowTooFewCols \/ RowNoLink \/ RowNoUrl
    \/ RowInvalid \/ RowAppend \/ SearchReturn \/ SearchTailError
    \/ CallDetailsAgain \/ DetailsEmpty \/ DetailsParseError \/ DetailsSynopsis
    \/ DetailsSection \/ DetailsMergeError \/ DetailsReturn
    \/ Return \/ ReturnKept \/ Switch

SpecTwice == Init /\ [][NextTwice]_vars

---------------------------------------------------------------------------
(* Claims about parse_search_results *)

SearchDone == fn = "parse_search_results" /\ pc = "done"

\* a call that reached the row loop and returned from line 169
SearchedTable ==
    /\ SearchDone
    /\ html_content.kind = "search"
    /\ html_content.fault = "none"
    /\ html_content.table.t # "None"

\* the rows of the document's table after its first row
DataRows == SubSeq(html_content.table.trs, 2, Len(html_content.table.trs))

\* the row of the claims' wording: at least 6 cells, a usa-link anchor in
\* the first cell with text and href that are non-empty once trimmed, a
\* title cell whose text is non-empty once trimmed, and no exception
\* escaping the row's processing
WellFormedRow(row) ==
    /\ row.fault # "row"
    /\ Len(row.cols) >= 6
    /\ row.link.t # "None"
    /\ Strip(row.link.text) # <<>>
    /\ row.link.href.t # "None"
    /\ Strip(row.link.href.s) # <<>>
    /\ Strip(row.cols[2] \o DetailsText(row.details)) # <<>>

\* C1: when every data row after the header row is well formed (at least 6
\* cells, a usa-link anchor with non-empty trimmed text and href, a
\* non-empty title cell), parse_search_results returns exactly one record
\* per data row, the i-th record carrying the opportunity number, URL and
\* title of the i-th data row; the first row of the table gives no record.
C1_OneRecordPerRowInOrder ==
    (SearchedTable /\ \A i \in 1..Len(DataRows) : WellFormedRow(DataRows[i]))
    => /\ ret.t = "list"
       /\ Len(ret.v) = Len(DataRows)
       /\ \A i \in 1..Len(DataRows) :
            /\ ret.v[i]["opportunity_number"] = Str(Strip(DataRows[i].link.text))
            /\ ret.v[i]["detail_page_url"]
                 = Str(SitePrefix \o Strip(DataRows[i].link.href.s))
            /\ ret.v[i]["title"]
                 = Str(Strip(DataRows[i].cols[2] \o DetailsText(DataRows[i].details)))

\* three well-formed data rows, not all alike, behind a first row that is
\* itself shaped like a data row, and three records returned
C1_Witness ==
    /\ SearchedTable
    /\ Len(DataRows) = MaxRows
    /\ \A i \in 1..Len(DataRows) : WellFormedRow(DataRows[i])
    /\ DataRows[1] # DataRows[2]
    /\ WellFormedRow(html_content.table.trs[1])
    /\ Len(ret.v) = MaxRows

\* C2: rows are processed independently: the result is, in order, the
\* records of exactly the rows that are not skipped and do not raise, each
\* record depending on its own row only.
C2_RowsIndependent ==
    SearchedTable
    => /\ ret.t = "list"
       /\ LET kept == SelectSeq(DataRows, WellFormedRow)
          IN /\ Len(ret.v) = Len(kept)
             /\ \A i \in 1..Len(kept) : ret.v[i] = Grant(kept[i])

\* the rows [valid, 4-cell row, valid] of the claim, and the two valid
\* rows' records in their order
C2_Witness ==
    /\ SearchedTable
    /\ Len(DataRows) = 3
    /\ WellFormedRow(DataRows[1]) /\ WellFormedRow(DataRows[3])
    /\ DataRows[1] # DataRows[3]
    /\ Len(DataRows[2].cols) = 4
    /\ Len(ret.v) = 2
    /\ ret.v[1] = Grant(DataRows[1]) /\ ret.v[2] = Grant(DataRows[3])

NonEmptyStr(v) == v.t = "str" /\ v.s # <<>>

\* C3: every returned record has a non-empty title, opportunity_number and
\* detail_page_url; validate_grant_data accepts an assembled record exactly
\* when the three are non-empty, and a row whose record fails it gives no
\* record.
C3_RequiredFieldsNonEmpty ==
    SearchDone
    => /\ ret.t = "list"
       /\ \A i \in 1..Len(ret.v) :
            \A k \in {"title", "opportunity_number", "detail_page_url"} :
                k \in DOMAIN ret.v[i] /\ NonEmptyStr(ret.v[i][k])
       /\ SearchedTable =>
            /\ \A i \in 1..Len(DataRows) :
                 (HasLink(DataRows[i]) /\ DataRows[i].link.href.t # "None")
                 => (validate_grant_data(Grant(DataRows[i]))
                       <=> /\ Strip(DataRows[i].link.text) # <<>>
                           /\ Strip(DataRows[i].cols[2] \o DetailsText(DataRows[i].details)) # <<>>)
            /\ (\A i \in 1..Len(DataRows) :
                  \/ ~WellFormedRow(DataRows[i])) => ret.v = <<>>

\* a row with an anchor of empty text, or with an empty title cell, and a
\* good href, was dropped
C3_Witness ==
    /\ SearchedTable
    /\ Len(DataRows) = 1
    /\ HasLink(DataRows[1])
    /\ DataRows[1].link.href = Str(<<"/", "a">>)
    /\ \/ Strip(DataRows[1].link.text) = <<>>
       \/ Strip(DataRows[1].cols[2]) = <<>>
    /\ ret = RetList(<<>>)

\* C4: detail_page_url of every record is "https://grants.gov" followed by
\* the trimmed href of its row's anchor, whatever the href looks like; a
\* row whose trimmed href is empty gives no record.
C4_DetailUrlExact ==
    SearchedTable
    => LET kept == SelectSeq(DataRows, WellFormedRow)
       IN /\ Len(ret.v) = Len(kept)
          /\ \A i \in 1..Len(kept) :
               ret.v[i]["detail_page_url"]
                 = Str(<<"h", "t", "t", "p", "s", ":", "/", "/", "g", "r", "a", "n",
                         "t", "s", ".", "g", "o", "v">> \o Strip(kept[i].link.href.s))
          /\ (\A i \in 1..Len(DataRows) :
                DataRows[i].link.t # "None"
                => Strip(AttrGet(DataRows[i].link.href, <<>>)) = <<>>)
             => ret.v = <<>>

\* a record from an href without a leading slash, and one from an href
\* that is already absolute
C4_Witness ==
    /\ SearchedTable
    /\ Len(DataRows) = 1
    /\ Len(ret.v) = 1
    /\ \/ DataRows[1].link.href = Str(<<"a", " ">>)
       \/ DataRows[1].link.href = Str(AbsoluteHref)
    /\ ret.v[1]["detail_page_url"] \in {Str(SitePrefix \o <<"a">>), Str(SitePrefix \o AbsoluteHref)}

OptionalFields ==
    {"agency", "status", "posted_date", "close_date", "award_ceiling", "award_floor",
     "eligibility", "funding_instrument", "category"}

\* C5: no field of a returned record is the empty string: each optional
\* field is None or a non-empty trimmed string, and a cell whose text is
\* empty once trimmed gives None.
C5_NoEmptyStringField ==
    SearchedTable
    => LET kept == SelectSeq(DataRows, WellFormedRow)
       IN /\ Len(ret.v) = Len(kept)
          /\ \A i \in 1..Len(ret.v) :
               /\ DOMAIN ret.v[i] \subseteq
                    OptionalFields \cup {"title", "opportunity_number", "detail_page_url"}
               /\ \A k \in DOMAIN ret.v[i] :
                    \/ k \in OptionalFields /\ ret.v[i][k] = None
                    \/ NonEmptyStr(ret.v[i][k]) /\ Strip(ret.v[i][k].s) = ret.v[i][k].s
          /\ \A i \in 1..Len(kept) :
               /\ (ret.v[i]["agency"] = None) <=> (Strip(kept[i].cols[3]) = <<>>)
               /\ (ret.v[i]["close_date"] = None) <=> (Strip(kept[i].cols[6]) = <<>>)
               /\ ("eligibility" \in DOMAIN ret.v[i]
                   /\ Strip(TextOf(kept[i].details.eligibility)) = <<>>)
                  => ret.v[i]["eligibility"] = None

\* a record whose agency cell holds only whitespace, or whose eligibility
\* element is absent or blank, with None in that field
C5_Witness ==
    /\ SearchedTable
    /\ Len(ret.v) = 1
    /\ \/ DataRows[1].cols[3] = <<" ">> /\ ret.v[1]["agency"] = None
       \/ /\ "eligibility" \in DOMAIN ret.v[1]
          /\ DataRows[1].details.eligibility = Tag(<<" ", " ">>)
          /\ ret.v[1]["eligibility"] = None

---------------------------------------------------------------------------
(* Claims about clean_amount *)

CleanDone == fn = "clean_amount" /\ pc = "done"

IsDigitOrDot(c) == c \in {"0", "1", "2", "3", "4", "5", "6", "7", "8", "9", "."}

\* C6: clean_amount(s) is the subsequence of the digits and '.' of s, None
\* exactly when s is absent, empty or has no such character; several
\* decimal points are kept, and cleaning a result again changes nothing.
C6_CleanAmountKeepsDigitsAndDots ==
    CleanDone
    => LET kept == IF amount_str = None THEN <<>>
                   ELSE SelectSeq(amount_str.s, IsDigitOrDot)
       IN /\ (ret = None) <=> (kept = <<>>)
          /\ ret # None => (ret = Str(kept) /\ clean_amount(ret) = ret)
          /\ amount_str = Str(<<"$", "1", ",", "2", "3", "4", ".", "5", "6">>)
               => ret = Str(<<"1", "2", "3", "4", ".", "5", "6">>)

\* "$1,234.56" cleaned to "1234.56"
C6_Witness ==
    /\ CleanDone
    /\ amount_str = Str(<<"$", "1", ",", "2", "3", "4", ".", "5", "6">>)
    /\ ret = Str(<<"1", "2", "3", "4", ".", "5", "6">>)

---------------------------------------------------------------------------
(* Claims about both extractors *)

DetailsDone == fn = "parse_grant_details" /\ pc = "done"

\* C7: no exception escapes parse_search_results or parse_grant_details:
\* empty input, a missing results table and a failure of the document-level
\* parsing all return the empty list / empty dict, never a partial result.
C7_NoExceptionEscapes ==
    /\ ret # Raised
    /\ SearchDone =>
         /\ ret.t = "list"
         /\ (IF html_content.kind = "empty" THEN TRUE
             ELSE html_content.fault # "none" \/ html_content.table.t = "None")
            => ret = RetList(<<>>)
    /\ DetailsDone =>
         /\ ret.t = "dict"
         /\ (IF html_content.kind = "empty" THEN TRUE
             ELSE html_content.fault \in {"soup", "merge"})
            => ret = RetDict(EmptyDict)

\* an exception after records were collected, and after fields were
\* extracted, each answered with the empty result
C7_Witness ==
    \/ /\ SearchDone
       /\ html_content.kind = "search" /\ html_content.fault = "tail"
       /\ grants # <<>>
       /\ ret = RetList(<<>>)
    \/ /\ DetailsDone
       /\ html_content.kind = "details" /\ html_content.fault = "merge"
       /\ details # EmptyDict
       /\ ret = RetDict(EmptyDict)

---------------------------------------------------------------------------
(* Claims about parse_grant_details *)

\* a call that went through the three sections and returned from line 272
ExtractedDetails ==
    /\ DetailsDone
    /\ html_content.kind = "details"
    /\ html_content.fault \notin {"soup", "merge"}

\* the rows of a section's table that are processed: all of them, or those
\* before the first row that raises
ProcessedRows(section) ==
    IF section.t = "None" THEN <<>>
    ELSE IF section.table.t = "None" THEN <<>>
    ELSE LET trs == section.table.trs
             bad == {i \in 1..Len(trs) : trs[i].fault = "row"}
         IN IF bad = {} THEN trs
            ELSE SubSeq(trs, 1, (CHOOSE i \in bad : \A j \in bad : i <= j) - 1)

Contributes(row) == Len(row.cols) = 2 /\ Truthy(RowValue(row))

\* the contributing rows of the three sections, in merge order
Contributions ==
    SelectSeq(ProcessedRows(html_content.sections.general), Contributes)
    \o SelectSeq(ProcessedRows(html_content.sections.eligibility), Contributes)
    \o SelectSeq(ProcessedRows(html_content.sections.additional), Contributes)

\* the i-th contribution is the last one for its key
LastForKey(i) ==
    \A j \in (i + 1)..Len(Contributions) :
        RowKey(Contributions[j]) # RowKey(Contributions[i])

\* C8: the sections are merged in the order General Information,
\* Eligibility, Additional Information: every key a section contributes is
\* in the result, with the value of the latest contribution in that order.
C8_MergeOrderLaterWins ==
    ExtractedDetails
    => /\ ret.t = "dict"
       /\ \A i \in 1..Len(Contributions) :
            /\ RowKey(Contributions[i]) \in DOMAIN ret.v
            /\ LastForKey(i) => ret.v[RowKey(Contributions[i])] = RowValue(Contributions[i])
       /\ DOMAIN ret.v \subseteq
            {KeySynopsis} \cup {RowKey(Contributions[i]) : i \in 1..Len(Contributions)}

\* key k from General Information ("v") and from Eligibility ("w"): the
\* result holds the Eligibility value
C8_Witness ==
    /\ ExtractedDetails
    /\ html_content.sections.general = Section(Table(<<RowKV>>))
    /\ html_content.sections.eligibility = Section(Table(<<RowKW, RowJLinks>>))
    /\ html_content.sections.additional = Section(None)
    /\ ret.v[KeyK] = Str(<<"w">>)
    /\ KeyJ \in DOMAIN ret.v

HasHref(attr) == attr.t = "str" /\ attr.s # <<>>

\* C9: a value cell with hyperlinks is stored as {text, urls}: text the
\* cell's trimmed text or None, urls the hrefs of the hyperlinks in document
\* order, those with a missing or empty href left out, every element of
\* urls non-empty.
C9_LinkUrlsNonEmpty ==
    ExtractedDetails
    => \A i \in 1..Len(Contributions) :
         (LastForKey(i) /\ Contributions[i].cols[2].links # <<>>)
         => LET cell == Contributions[i].cols[2]
                value == ret.v[RowKey(Contributions[i])]
                hrefs == SelectSeq(cell.links, HasHref)
            IN /\ value.t = "dict"
               /\ value.text = (IF Strip(CellText(cell)) = <<>> THEN None
                                ELSE Str(Strip(CellText(cell))))
               /\ value.urls = [n \in 1..Len(hrefs) |-> Strip(hrefs[n].s)]
               /\ \A n \in 1..Len(value.urls) : value.urls[n] # <<>>

\* C10: a row contributes a key only if it has exactly 2 cells and a
\* non-empty value: no key from a section table maps to None, to the empty
\* string, or to a structured value with neither text nor any url.
C10_NoEmptyValueStored ==
    ExtractedDetails
    => \A key \in DOMAIN ret.v \ {KeySynopsis} :
         /\ ret.v[key] # None
         /\ ret.v[key] # Str(<<>>)
         /\ ~(ret.v[key].t = "dict" /\ ret.v[key].text = None /\ ret.v[key].urls = <<>>)
         /\ \E name \in {"general", "eligibility", "additional"} :
              \E row \in {ProcessedRows(html_content.sections[name])[n] :
                            n \in 1..Len(ProcessedRows(html_content.sections[name]))} :
                  Len(row.cols) = 2 /\ RowKey(row) = key

---------------------------------------------------------------------------
(* Claims about the synopsis *)

\* the heading's next sibling element, or None when it is the last child
NextSibling(synopsis_header) ==
    LET following == synopsis_header.following
    IN IF following # <<>> /\ following[1].rel = "sibling" THEN following[1] ELSE None

\* no row of the three sections has the key "synopsis"
NoSynopsisRow ==
    \A i \in 1..Len(Contributions) : RowKey(Contributions[i]) # KeySynopsis

\* C12: when the heading "Opportunity Synopsis" exists, "synopsis" is the
\* trimmed text of the heading's next sibling element, not of a later or a
\* nested one; without the heading the result has no key "synopsis"; and a
\* failure of the synopsis step leaves the three sections extracted.
C12_SynopsisIsNextSibling ==
    (ExtractedDetails /\ NoSynopsisRow)
    => /\ (html_content.synopsis.t = "None") => (KeySynopsis \notin DOMAIN ret.v)
       /\ (/\ html_content.synopsis.t # "None"
           /\ html_content.fault # "synopsis"
           /\ NextSibling(html_content.synopsis).t # "None")
          => /\ KeySynopsis \in DOMAIN ret.v
             /\ ret.v[KeySynopsis] = Str(Strip(NextSibling(html_content.synopsis).text))
       /\ (html_content.fault = "synopsis")
          => \A i \in 1..Len(Contributions) : RowKey(Contributions[i]) \in DOMAIN ret.v

---------------------------------------------------------------------------
(* Claims about repeated calls *)

\* C11: both extractors are functions of their HTML argument alone: a call
\* returns what an earlier call of the same extractor on the same HTML
\* returned, whatever was called in between and whatever invocation of
\* another thread is under way.
C11_SameInputSameResult ==
    /\ (pc = "done" /\ ref.fn = fn /\ ref.html_content = html_content)
       => ret = ref.ret
    /\ (suspended.pc = "done" /\ ref.fn = suspended.fn
        /\ ref.html_content = suspended.html_content)
       => suspended.ret = ref.ret

\* the table of eight rows parsed a second time, with the same two records
\* as the first time, while another thread is in the section loop of a
\* detail page
C11_Witness ==
    /\ pc = "done" /\ fn = "parse_search_results"
    /\ ref.fn = fn /\ ref.html_content = html_content
    /\ ret = ref.ret
    /\ Len(ret.v) = 2
    /\ suspended.fn = "parse_grant_details" /\ suspended.pc = "sections"
    /\ suspended.sec = 2

---------------------------------------------------------------------------
(* Claims about retry_request *)

WrapperDone == fn = "wrapper" /\ pc = "done"

\* C13: the decorated function is attempted at most max_retries times; the
\* wrapper returns the value of the first attempt that succeeds, raises the
\* exception of the last attempt when all max_retries attempts fail, and
\* never returns normally unless an attempt succeeded.
C13_RetryContract ==
    /\ (fn = "wrapper") => (wrapper.calls <= wrapper.max_retries)
    /\ (WrapperDone /\ ret.t = "value")
       => /\ ret = Value(wrapper.calls)
          /\ wrapper.retries = wrapper.calls - 1
    /\ (WrapperDone /\ ret.t = "raise")
       => /\ wrapper.retries = wrapper.max_retries
          /\ wrapper.calls = wrapper.max_retries
          /\ ret = Reraised(wrapper.calls)
    /\ (WrapperDone /\ ret.t # "raise")
       => /\ ret.t = "value"
          /\ wrapper.calls > wrapper.retries

====
